---- MODULE Spec2Model ----
(***************************************************************************)
(* A model of claude-reset-scheduler: the daily ping-time calculator, the  *)
(* window membership test, the JSON ledger of sent pings with its lock     *)
(* file and atomic replace, the rate limiter and the dispatch loops of     *)
(* run_once and run, run by several processes that share one state         *)
(* directory.                                                              *)
(*                                                                         *)
(* Text is modelled as a sequence of one-character strings, so that        *)
(* formatting ("%02d:%02d") and parsing (split(":"), int) are computed.    *)
(***************************************************************************)
EXTENDS Integers, Sequences, FiniteSets, TLC

VARIABLES
    args,        \* inputs of the function under check (a record)
    ret,         \* its result, fn = "none" before the call
    clock,       \* datetime.now(): [date |-> day number, minute |-> of the day]
    files,       \* the state directory: path -> content
    lockPath,    \* inode the lock file's name points to, 0 when no such name
    lockHolder,  \* inode -> process holding its exclusive flock, 0 when free
    pc,          \* process -> position in run_once, run, mark_ping_sent_today
    cfg,         \* process -> work_start_time of its Config
    idx,         \* process -> index into ping_times of the window under check
    attempt,     \* process -> attempt number of the retry loop
    data,        \* process -> the ledger mapping it read (local variable data)
    lockFd,      \* process -> inode of its open lock_fd, 0 when none
    runs,        \* process -> number of invocations it has begun
    pings,       \* log of successful send_ping calls:
                 \* <<date, key, process, run, minute of the day>>
    marked,      \* the <<date, key>> whose mark_ping_sent_today has returned
    startMarked, \* process -> the value of marked when its invocation began
    invoked,     \* process -> keys it called send_ping for in its invocation
    everCorrupt, \* the ledger file has held unparseable content
    result,      \* process -> the value its last run_once returned
    calls,       \* process -> results of the send_ping calls of its invocation
    before,      \* process -> the ledger mapping when its invocation began
    entry,       \* process -> the function its invocation entered
    shutdown,    \* process -> signal_handler.shutdown_requested
    raising,     \* process -> an exception is propagating out of its call
    waits,       \* process -> the wait_time, in seconds, of each wait its
                 \* invocation has begun
    checked      \* process -> the date was_ping_sent_today looked under for
                 \* the window under way (its local variable today)

vars == <<args, ret, clock, files, lockPath, lockHolder, pc, cfg, idx, attempt,
          data, lockFd, runs, pings, marked, startMarked, invoked, everCorrupt,
          result, calls, before, entry, shutdown, raising, waits,
          checked>>

sysvars == <<clock, files, lockPath, lockHolder, pc, cfg, idx, attempt, data,
             lockFd, runs, pings, marked, startMarked, invoked, everCorrupt,
             result, calls, before, entry, shutdown, raising, waits,
          checked>>

--------------------------------------------------------------------------
(* Text: str.format, str.split and int on one-character sequences.        *)

DigitChars == <<"0", "1", "2", "3", "4", "5", "6", "7", "8", "9">>

DigitValue(c) == CHOOSE d \in 0..9 : DigitChars[d + 1] = c

IsDigit(c) == \E d \in 0..9 : DigitChars[d + 1] = c

RECURSIVE IntToStr(_)
IntToStr(n) ==
    IF n < 10 THEN <<DigitChars[n + 1]>>
    ELSE IntToStr(n \div 10) \o <<DigitChars[(n % 10) + 1]>>

\* f"{n:02d}": the decimal digits, zero-padded to a width of at least two.
Format02d(n) ==
    LET s == IF n < 0 THEN <<"-">> \o IntToStr(-n) ELSE IntToStr(n)
    IN  IF Len(s) < 2 THEN <<"0">> \o s ELSE s

\* f"{hour:02d}:{minute:02d}"
FormatTime(hour, minute) == Format02d(hour) \o <<":">> \o Format02d(minute)

\* s.split(":"): the pieces of s between the colons.
RECURSIVE Split(_)
Split(s) ==
    IF \A i \in 1..Len(s) : s[i] # ":" THEN <<s>>
    ELSE LET i == CHOOSE j \in 1..Len(s) :
                      s[j] = ":" /\ \A k \in 1..(j - 1) : s[k] # ":"
         IN  <<SubSeq(s, 1, i - 1)>> \o Split(SubSeq(s, i + 1, Len(s)))

\* str.strip() of the blanks int() ignores.
RECURSIVE Strip(_)
Strip(s) ==
    IF s = <<>> THEN s
    ELSE IF Head(s) = " " THEN Strip(Tail(s))
    ELSE IF s[Len(s)] = " " THEN Strip(SubSeq(s, 1, Len(s) - 1))
    ELSE s

RECURSIVE DigitsValue(_)
DigitsValue(s) ==
    IF s = <<>> THEN 0
    ELSE 10 * DigitsValue(SubSeq(s, 1, Len(s) - 1)) + DigitValue(s[Len(s)])

\* The body of an int() literal: an optional sign, then digits.
Unsigned(s) ==
    LET t == Strip(s)
    IN  IF t # <<>> /\ Head(t) \in {"+", "-"} THEN Tail(t) ELSE t

\* int(s) succeeds (no ValueError).
IsIntLiteral(s) ==
    /\ Unsigned(s) # <<>>
    /\ \A i \in 1..Len(Unsigned(s)) : IsDigit(Unsigned(s)[i])

\* int(s), for s an int literal.
ParseInt(s) ==
    LET t == Strip(s)
    IN  IF Head(t) = "-" THEN 0 - DigitsValue(Unsigned(s))
        ELSE DigitsValue(Unsigned(s))

\* hour, minute = map(int, s.split(":")), as hour * 60 + minute: hour and
\* minute are bound to the two pieces of the one split.
ParseMinutes(s) ==
    CHOOSE total \in { ParseInt(hour) * 60 + ParseInt(minute) :
                          hour \in {Split(s)[1]}, minute \in {Split(s)[2]} } : TRUE

--------------------------------------------------------------------------
(* Config: the validators of work_start_time and work_end_time.           *)

MinutesPerDay == 1440

\* validate_work_time: five characters, a colon in the middle, int() of
\* both halves, hours 0..23 and minutes 0..59.
ValidWorkTime(v) ==
    /\ Len(v) = 5
    /\ v[3] = ":"
    /\ Len(Split(v)) = 2
    /\ IsIntLiteral(Split(v)[1])
    /\ IsIntLiteral(Split(v)[2])
    /\ ParseInt(Split(v)[1]) \in 0..23
    /\ ParseInt(Split(v)[2]) \in 0..59

\* validate_work_times_order: work_start_time strictly before work_end_time.
ValidWorkTimesOrder(start, end) == ParseMinutes(start) < ParseMinutes(end)

--------------------------------------------------------------------------
(* The time-window calculator.                                            *)

\* Config.work_end_time when the file gives none.
DefaultWorkEndTime == FormatTime(17, 0)

PingIntervalMinutes == 300

DefaultNumPings == 3

\* A faulty variant of calculate_ping_times: the interval taken as a third
\* of the working day instead of the fixed five hours.
RECURSIVE ThirdsFrom(_, _, _)
ThirdsFrom(current, step, n) ==
    IF n <= 0 THEN <<>>
    ELSE <<FormatTime(current \div 60, current % 60)>>
             \o ThirdsFrom(current + step, step, n - 1)

calculate_ping_times_thirds(work_start_time, work_end_time, num_pings) ==
    ThirdsFrom(ParseMinutes(work_start_time),
               (ParseMinutes(work_end_time) - ParseMinutes(work_start_time)) \div 3,
               num_pings)

\* A faulty variant of calculate_ping_times: the interval taken as five
\* minutes (5 for 5 * 60).
calculate_ping_times_minutes(work_start_time, work_end_time, num_pings) ==
    ThirdsFrom(ParseMinutes(work_start_time), 5, num_pings)

\* The loop of calculate_ping_times: n times from current, 300 minutes apart.
RECURSIVE PingTimesFrom(_, _)
PingTimesFrom(current, n) ==
    IF n <= 0 THEN <<>>
    ELSE <<FormatTime(current \div 60, current % 60)>>
             \o PingTimesFrom(current + PingIntervalMinutes, n - 1)

\* scheduler.calculate_ping_times(config, num_pings); work_end_time is a
\* field of config the function never reads.
calculate_ping_times(work_start_time, work_end_time, num_pings) ==
    PingTimesFrom(ParseMinutes(work_start_time), num_pings)

PkgEndTimeMinutes == 1020

\* claude_reset_scheduler.scheduler.calculate_ping_times(config): thirds of
\* the interval from work_start_time to a fixed 17:00.
pkg_calculate_ping_times(work_start_time) ==
    LET start_time_minutes == ParseMinutes(work_start_time)
        ping_interval_minutes == (PkgEndTimeMinutes - start_time_minutes) \div 3
    IN  [i \in 1..3 |->
            LET minutes == start_time_minutes + ping_interval_minutes * (i - 1)
            IN  FormatTime(minutes \div 60, minutes % 60)]

--------------------------------------------------------------------------
(* The window membership test.                                            *)

ToleranceMinutes == 15

\* A faulty variant of is_time_to_ping: the plain absolute difference, with
\* no wrap around midnight.
is_time_to_ping_abs(scheduled_time, now_hour, now_minute) ==
    LET d == (now_hour * 60 + now_minute) - ParseMinutes(scheduled_time)
    IN  (IF d < 0 THEN 0 - d ELSE d) <= ToleranceMinutes

\* A faulty variant of is_time_to_ping: the forward distance only, never
\* folded back when it exceeds twelve hours.
is_time_to_ping_forward(scheduled_time, now_hour, now_minute) ==
    (((now_hour * 60 + now_minute) - ParseMinutes(scheduled_time)) % MinutesPerDay)
        <= ToleranceMinutes

\* scheduler.is_time_to_ping(scheduled_time), with datetime.now() given.
is_time_to_ping(scheduled_time, now_hour, now_minute) ==
    LET now_minutes == now_hour * 60 + now_minute
        scheduled_minutes == ParseMinutes(scheduled_time)
        diff0 == (now_minutes - scheduled_minutes) % (24 * 60)
        diff == IF diff0 > 12 * 60 THEN (24 * 60) - diff0 ELSE diff0
    IN  diff <= ToleranceMinutes

--------------------------------------------------------------------------
(* The state directory and the processes that share it.                   *)

\* Spec: the processes that run run_once from its start.
NumRunners == 2

Runners == 1..NumRunners

\* SpecLedger: the processes that have each dispatched a window of their
\* own and are about to mark it; one more process runs run_once after them.
NumWriters == 3

Writers == 1..NumWriters

Observer == NumWriters + 1

NumProcs == IF NumRunners > Observer THEN NumRunners ELSE Observer

Procs == 1..NumProcs

\* The invocations one process runs, one after the other.
MaxRuns == 2

\* Paths of STATE_DIR: LAST_PINGS_FILE, its .json.backup and the temporary
\* file mkstemp creates for a process.
LedgerPath == <<"last_pings.json">>

BackupPath == <<"last_pings.json.backup">>

TmpPath(p) == <<".last_pings_", p, ".json.tmp">>

Paths == {LedgerPath, BackupPath} \cup {TmpPath(p) : p \in Procs}

\* Content of a file: none (no such file), JSON text of a ledger mapping
\* (data: the <<date, key>> set to true), an incomplete write, text that
\* is not JSON, JSON text of a value that is no object (a list such as []),
\* or a file the process may not open.
Absent == [kind |-> "absent", data |-> {}]

NotMapping == [kind |-> "notmapping", data |-> {}]

Unreadable == [kind |-> "unreadable", data |-> {}]

Torn == [kind |-> "torn", data |-> {}]

Corrupt == [kind |-> "corrupt", data |-> {}]

\* json.dump(data, f) and the flush and fsync after it.
JsonFile(d) == [kind |-> "json", data |-> d]

\* json.load raises JSONDecodeError on this content.
Undecodable(content) == content.kind \in {"torn", "corrupt"}

\* json.load returns a value without the methods of a dict: data.get and
\* data.items raise AttributeError, data[today] = {} raises TypeError.
NotADict(content) == content.kind = "notmapping"

\* What _read_pings_file returns for the content found at LAST_PINGS_FILE:
\* {} for a missing, an unreadable or an undecodable file.
ReadPings(content) == IF content.kind = "json" THEN content.data ELSE {}

\* LAST_PINGS_FILE.rename(backup_path); when the file is gone the rename
\* raises and the error is logged and dropped.
RenameAside(fs) ==
    IF fs[LedgerPath].kind = "absent" THEN fs
    ELSE [fs EXCEPT ![BackupPath] = fs[LedgerPath], ![LedgerPath] = Absent]

RetentionDays == 7

\* Faulty variants of _cleanup_old_records: the cutoff date itself is
\* dropped; the comparison is turned round.
cleanup_old_records_strict(d, today) == {e \in d : e[1] > today - RetentionDays}

cleanup_old_records_reversed(d, today) == {e \in d : e[1] <= today - RetentionDays}

\* _cleanup_old_records(data) at date today.
cleanup_old_records(d, today) == {e \in d : e[1] >= today - RetentionDays}

\* A faulty variant of the assignment below: it is left out.
SetSentTodayOmitted(d, today, time_str) == d

\* A faulty variant of the assignment below: the flag is flipped.
SetSentTodayToggle(d, today, time_str) ==
    IF <<today, time_str>> \in d THEN d \ {<<today, time_str>>}
    ELSE d \cup {<<today, time_str>>}

\* if today not in data: data[today] = {}; data[today][time_str] = True
SetSentToday(d, today, time_str) == d \cup {<<today, time_str>>}

\* datetime.strptime(key, "%H:%M") succeeds: one or two digits each, the
\* hour at most 23 and the minute at most 59.
StrptimeOk(key) ==
    /\ Len(Split(key)) = 2
    /\ \A i \in 1..2 :
           /\ Len(Split(key)[i]) \in 1..2
           /\ \A j \in 1..Len(Split(key)[i]) : IsDigit(Split(key)[i][j])
    /\ ParseInt(Split(key)[1]) <= 23
    /\ ParseInt(Split(key)[2]) <= 59

RateLimitMinutes == 60

\* A faulty variant of should_rate_limit: no entry ever limits.
should_rate_limit_never(d, now) == FALSE

\* should_rate_limit() on the mapping d read from the ledger, at time now.
should_rate_limit(d, now) ==
    \E e \in d :
        /\ StrptimeOk(e[2])
        /\ e[1] * MinutesPerDay + ParseMinutes(e[2])
               > now.date * MinutesPerDay + now.minute - RateLimitMinutes

\* was_ping_sent_today(time_str) on the mapping d, at time now.
was_ping_sent_today(d, time_str, now) == <<now.date, time_str>> \in d

\* should_run_today(config): datetime.now().weekday() in active_days, with
\* day 0 a Monday and the default active_days Monday to Friday.
ActiveDays == 0..4

\* A faulty variant of should_run_today: active_days is ignored.
should_run_today_always(now) == TRUE

should_run_today(now) == (now.date % 7) \in ActiveDays

\* The values of work_start_time written hh:mm, from 00:00 to 23:59; each
\* is accepted by validate_work_time.
WorkTimes == {FormatTime(h, m) : h \in 0..23, m \in 0..59}

\* ping_times = calculate_ping_times(config), for each work_start_time.
ping_times ==
    [s \in WorkTimes |->
        calculate_ping_times(s, DefaultWorkEndTime, DefaultNumPings)]

\* The ping_times of run_once for process p.
PingTimes(p) == ping_times[cfg[p]]

\* time_str of the loop of run_once for process p.
TimeStr(p) == PingTimes(p)[idx[p]]

MaxRetries == 3

\* A faulty variant of the test below: one attempt too many.
RetryAgainOnceMore(attempt_no) == attempt_no < MaxRetries

\* After a failed send_ping of attempt attempt_no (counted from 0) the
\* loop "for attempt in range(max_retries)" runs once more.
RetryAgain(attempt_no) == attempt_no < MaxRetries - 1

\* run_once: "return True" after mark_ping_sent_today.
ReturnAfterDispatch == TRUE

\* Where the loop goes when the last attempt has failed: the else clause
\* of the retry loop logs the failure and the check of the next window
\* follows.  A faulty variant marks a window all the same.
AfterExhaustedMarks == "mark_open"

AfterExhausted == "check"

\* retry_delay, in seconds.
RetryDelay == 5

\* A faulty variant of the wait: the exponent counts the attempts from 1.
WaitTimeFromOne(attempt_no) == RetryDelay * 2 ^ (attempt_no + 1)

\* wait_time = retry_delay * (2**attempt), attempt counted from 0.
WaitTime(attempt_no) == RetryDelay * 2 ^ attempt_no

\* A faulty variant of the return below.
ReturnAtEndTrue == TRUE

\* run_once: "return False" after the loop over the windows.
ReturnAtEnd == FALSE

\* The inode os.open(lock_file, O_CREAT) creates: one no name and no open
\* descriptor refers to.
FreshInode ==
    CHOOSE i \in 1..(NumProcs + 1) :
        /\ i # lockPath
        /\ \A p \in Procs : lockFd[p] # i
        /\ \A j \in 1..(i - 1) : j = lockPath \/ \E p \in Procs : lockFd[p] = j

\* The path the new ledger text is written to before os.replace: the
\* temporary file of mkstemp.  A faulty variant writes LAST_PINGS_FILE in
\* place.
WritePathInPlace(p) == LedgerPath

WritePath(p) == TmpPath(p)

\* os.replace(src, dst)
Replace(fs, src, dst) ==
    IF src = dst THEN fs ELSE [fs EXCEPT ![dst] = fs[src], ![src] = Absent]

--------------------------------------------------------------------------
(* Spec: run_once in every process, on one shared state directory.        *)

\* The clock of the run: 09:05 on a Monday or on a Saturday.
StartDates == {7, 12}

StartMinute == 545

\* The work_start_time of the Config process p may load: 09:01, 09:02, ...,
\* schedules whose first window is due at 09:05.
ConfigStartTime(p) == FormatTime(9, p)

NoProcessRuns ==
    /\ lockPath = 0
    /\ lockHolder = [i \in 1..(NumProcs + 1) |-> 0]
    /\ pc = [p \in Procs |-> "idle"]
    /\ idx = [p \in Procs |-> 0]
    /\ attempt = [p \in Procs |-> 0]
    /\ data = [p \in Procs |-> {}]
    /\ lockFd = [p \in Procs |-> 0]
    /\ runs = [p \in Procs |-> 0]
    /\ pings = {}
    /\ marked = {}
    /\ startMarked = [p \in Procs |-> {}]
    /\ invoked = [p \in Procs |-> {}]
    /\ result = [p \in Procs |-> FALSE]
    /\ calls = [p \in Procs |-> <<>>]
    /\ before = [p \in Procs |-> {}]
    /\ entry = [p \in Procs |-> "run_once"]
    /\ shutdown = [p \in Procs |-> FALSE]
    /\ raising = [p \in Procs |-> FALSE]
    /\ waits = [p \in Procs |-> <<>>]
    /\ checked = [p \in Procs |-> 0]

\* The directory holds no ledger yet; each process has loaded a Config.
Init ==
    /\ args = <<>>
    /\ ret = <<>>
    /\ \E d \in StartDates : clock = [date |-> d, minute |-> StartMinute]
    /\ files = [f \in Paths |-> Absent]
    /\ everCorrupt = FALSE
    /\ cfg \in [Procs -> {ConfigStartTime(p) : p \in Runners}]
    /\ \A p \in Procs \ Runners : cfg[p] = ConfigStartTime(1)
    /\ NoProcessRuns

\* run_once up to the loop: should_run_today, calculate_ping_times.
Start(p) ==
    /\ pc[p] \in {"idle", "done"}
    /\ runs[p] < MaxRuns
    /\ runs' = [runs EXCEPT ![p] = @ + 1]
    /\ startMarked' = [startMarked EXCEPT ![p] = marked]
    /\ invoked' = [invoked EXCEPT ![p] = {}]
    /\ idx' = [idx EXCEPT ![p] = 1]
    /\ attempt' = [attempt EXCEPT ![p] = 0]
    /\ data' = [data EXCEPT ![p] = {}]
    /\ pc' = [pc EXCEPT ![p] = IF should_run_today(clock) THEN "check" ELSE "done"]
    /\ result' = [result EXCEPT ![p] = FALSE]
    /\ calls' = [calls EXCEPT ![p] = <<>>]
    /\ before' = [before EXCEPT ![p] = ReadPings(files[LedgerPath])]
    /\ entry' = [entry EXCEPT ![p] = "run_once"]
    /\ waits' = [waits EXCEPT ![p] = <<>>]
    /\ UNCHANGED <<args, ret, clock, files, lockPath, lockHolder, cfg, lockFd,
                   pings, marked, everCorrupt, shutdown, raising, checked>>

\* The head of the loop body: is_time_to_ping(time_str) and not
\* was_ping_sent_today(time_str); the loop's end returns False.
CheckWindow(p) ==
    /\ pc[p] = "check"
    /\ entry[p] = "run_once"
    /\ IF idx[p] > Len(PingTimes(p))
          THEN /\ pc' = [pc EXCEPT ![p] = "done"]
               /\ result' = [result EXCEPT ![p] = ReturnAtEnd]
               /\ UNCHANGED idx
       ELSE IF ~is_time_to_ping(TimeStr(p), clock.minute \div 60, clock.minute % 60)
          THEN idx' = [idx EXCEPT ![p] = @ + 1] /\ UNCHANGED <<pc, result>>
       ELSE IF NotADict(files[LedgerPath])
          THEN pc' = [pc EXCEPT ![p] = "raised"] /\ UNCHANGED <<idx, result>>
       ELSE IF Undecodable(files[LedgerPath])
          THEN pc' = [pc EXCEPT ![p] = "check_backup"] /\ UNCHANGED <<idx, result>>
       ELSE IF was_ping_sent_today(ReadPings(files[LedgerPath]), TimeStr(p), clock)
          THEN idx' = [idx EXCEPT ![p] = @ + 1] /\ UNCHANGED <<pc, result>>
       ELSE pc' = [pc EXCEPT ![p] = "ratelimit"] /\ UNCHANGED <<idx, result>>
    /\ UNCHANGED <<args, ret, clock, files, lockPath, lockHolder, cfg, attempt,
                   data, lockFd, runs, pings, marked, startMarked, invoked,
                   everCorrupt, calls, before,
                   entry, shutdown, raising, waits>>
    /\ checked' = [checked EXCEPT ![p] =
                      IF idx[p] <= Len(PingTimes(p))
                         /\ is_time_to_ping(TimeStr(p), clock.minute \div 60,
                                            clock.minute % 60)
                         THEN clock.date ELSE @]

\* _read_pings_file in was_ping_sent_today after a JSONDecodeError: the
\* file now at LAST_PINGS_FILE is renamed to the backup, {} is returned.
CheckBackup(p) ==
    /\ pc[p] = "check_backup"
    /\ files' = RenameAside(files)
    /\ pc' = [pc EXCEPT ![p] = "ratelimit"]
    /\ UNCHANGED <<args, ret, clock, lockPath, lockHolder, cfg, idx, attempt,
                   data, lockFd, runs, pings, marked, startMarked, invoked,
                   everCorrupt,
                   result, calls, before,
                   entry, shutdown, raising, waits,
                   checked>>

\* if should_rate_limit(): continue
RateLimit(p) ==
    /\ pc[p] = "ratelimit"
    /\ IF NotADict(files[LedgerPath])
          THEN pc' = [pc EXCEPT ![p] = "raised"] /\ UNCHANGED idx
       ELSE IF Undecodable(files[LedgerPath])
          THEN pc' = [pc EXCEPT ![p] = "ratelimit_backup"] /\ UNCHANGED idx
       ELSE IF should_rate_limit(ReadPings(files[LedgerPath]), clock)
          THEN pc' = [pc EXCEPT ![p] = "check"] /\ idx' = [idx EXCEPT ![p] = @ + 1]
       ELSE pc' = [pc EXCEPT ![p] = "send"] /\ UNCHANGED idx
    /\ attempt' = [attempt EXCEPT ![p] = 0]
    /\ UNCHANGED <<args, ret, clock, files, lockPath, lockHolder, cfg, data,
                   lockFd, runs, pings, marked, startMarked, invoked, everCorrupt,
                   result, calls, before,
                   entry, shutdown, raising, waits,
                   checked>>

\* _read_pings_file in should_rate_limit after a JSONDecodeError.
RateLimitBackup(p) ==
    /\ pc[p] = "ratelimit_backup"
    /\ files' = RenameAside(files)
    /\ pc' = [pc EXCEPT ![p] = "send"]
    /\ UNCHANGED <<args, ret, clock, lockPath, lockHolder, cfg, idx, attempt,
                   data, lockFd, runs, pings, marked, startMarked, invoked,
                   everCorrupt,
                   result, calls, before,
                   entry, shutdown, raising, waits,
                   checked>>

\* One attempt of the retry loop: send_ping succeeds and the window is
\* about to be marked, or it fails and the loop sleeps and tries again; after
\* the last failure the loop over the windows goes on.
SendPing(p) ==
    /\ pc[p] = "send"
    /\ entry[p] = "run_once"
    /\ invoked' = [invoked EXCEPT ![p] = @ \cup {TimeStr(p)}]
    /\ \/ /\ pings' = pings \cup {<<clock.date, TimeStr(p), p, runs[p],
                                     clock.minute>>}
          /\ calls' = [calls EXCEPT ![p] = Append(@, TRUE)]
          /\ pc' = [pc EXCEPT ![p] = "mark_open"]
          /\ UNCHANGED <<idx, attempt, waits>>
       \/ /\ RetryAgain(attempt[p])
          /\ calls' = [calls EXCEPT ![p] = Append(@, FALSE)]
          /\ attempt' = [attempt EXCEPT ![p] = @ + 1]
          /\ waits' = [waits EXCEPT ![p] = Append(@, WaitTime(attempt[p]))]
          /\ UNCHANGED <<pc, idx, pings>>
       \/ /\ ~RetryAgain(attempt[p])
          /\ calls' = [calls EXCEPT ![p] = Append(@, FALSE)]
          /\ idx' = [idx EXCEPT ![p] = @ + 1]
          /\ pc' = [pc EXCEPT ![p] = AfterExhausted]
          /\ UNCHANGED <<attempt, pings, waits>>
    /\ UNCHANGED <<args, ret, clock, files, lockPath, lockHolder, cfg, data,
                   lockFd, runs, marked, startMarked, everCorrupt, result,
                   before,
                   entry, shutdown, raising, checked>>

\* lock_fd = os.open(lock_file, os.O_CREAT | os.O_RDWR, 0o600)
MarkOpen(p) ==
    /\ pc[p] = "mark_open"
    /\ lockPath' = IF lockPath = 0 THEN FreshInode ELSE lockPath
    /\ lockFd' = [lockFd EXCEPT ![p] = lockPath']
    /\ pc' = [pc EXCEPT ![p] = "mark_flock"]
    /\ UNCHANGED <<args, ret, clock, files, lockHolder, cfg, idx, attempt, data,
                   runs, pings, marked, startMarked, invoked, everCorrupt,
                   result, calls, before,
                   entry, shutdown, raising, waits,
                   checked>>

\* fcntl.flock(lock_fd, fcntl.LOCK_EX): blocks while another open file
\* description holds the lock of the same inode.
MarkFlock(p) ==
    /\ pc[p] = "mark_flock"
    /\ lockHolder[lockFd[p]] = 0
    /\ lockHolder' = [lockHolder EXCEPT ![lockFd[p]] = p]
    /\ pc' = [pc EXCEPT ![p] = "mark_read"]
    /\ UNCHANGED <<args, ret, clock, files, lockPath, cfg, idx, attempt, data,
                   lockFd, runs, pings, marked, startMarked, invoked, everCorrupt,
                   result, calls, before,
                   entry, shutdown, raising, waits,
                   checked>>

\* data = _read_pings_file(); on a value that is no dict the assignment
\* data[today] = {} raises and the finally block is next.
MarkRead(p) ==
    /\ pc[p] = "mark_read"
    /\ data' = [data EXCEPT ![p] = ReadPings(files[LedgerPath])]
    /\ pc' = [pc EXCEPT ![p] = IF NotADict(files[LedgerPath]) THEN "mark_unlock"
                               ELSE IF Undecodable(files[LedgerPath])
                                  THEN "mark_backup" ELSE "mark_mkstemp"]
    /\ raising' = [raising EXCEPT ![p] = NotADict(files[LedgerPath])]
    /\ UNCHANGED <<args, ret, clock, files, lockPath, lockHolder, cfg, idx,
                   attempt, lockFd, runs, pings, marked, startMarked, invoked,
                   everCorrupt, result, calls, before, entry, shutdown, waits,
                   checked>>

\* _read_pings_file in mark_ping_sent_today after a JSONDecodeError.
MarkBackup(p) ==
    /\ pc[p] = "mark_backup"
    /\ files' = RenameAside(files)
    /\ pc' = [pc EXCEPT ![p] = "mark_mkstemp"]
    /\ UNCHANGED <<args, ret, clock, lockPath, lockHolder, cfg, idx, attempt,
                   data, lockFd, runs, pings, marked, startMarked, invoked,
                   everCorrupt,
                   result, calls, before,
                   entry, shutdown, raising, waits,
                   checked>>

\* data[today][time_str] = True, _cleanup_old_records, tempfile.mkstemp:
\* the new file is empty.
MarkMkstemp(p) ==
    /\ pc[p] = "mark_mkstemp"
    /\ data' = [data EXCEPT ![p] =
                   cleanup_old_records(SetSentToday(@, clock.date, TimeStr(p)),
                                       clock.date)]
    /\ files' = [files EXCEPT ![WritePath(p)] = Torn]
    /\ pc' = [pc EXCEPT ![p] = "mark_write"]
    /\ UNCHANGED <<args, ret, clock, lockPath, lockHolder, cfg, idx, attempt,
                   lockFd, runs, pings, marked, startMarked, invoked, everCorrupt,
                   result, calls, before,
                   entry, shutdown, raising, waits,
                   checked>>

\* json.dump(data, temp_f), flush, fsync, close; os.chmod
MarkWrite(p) ==
    /\ pc[p] = "mark_write"
    /\ files' = [files EXCEPT ![WritePath(p)] = JsonFile(data[p])]
    /\ pc' = [pc EXCEPT ![p] = "mark_replace"]
    /\ UNCHANGED <<args, ret, clock, lockPath, lockHolder, cfg, idx, attempt,
                   data, lockFd, runs, pings, marked, startMarked, invoked,
                   everCorrupt,
                   result, calls, before,
                   entry, shutdown, raising, waits,
                   checked>>

\* os.replace(temp_path, LAST_PINGS_FILE)
MarkReplace(p) ==
    /\ pc[p] = "mark_replace"
    /\ files' = Replace(files, WritePath(p), LedgerPath)
    /\ pc' = [pc EXCEPT ![p] = "mark_unlock"]
    /\ UNCHANGED <<args, ret, clock, lockPath, lockHolder, cfg, idx, attempt,
                   data, lockFd, runs, pings, marked, startMarked, invoked,
                   everCorrupt,
                   result, calls, before,
                   entry, shutdown, raising, waits,
                   checked>>

\* A faulty variant of the release below: the lock stays with its holder.
UnlockedKept(holder, fd) == holder

\* fcntl.flock(lock_fd, fcntl.LOCK_UN): who holds the lock of each inode
\* once the holder of descriptor fd has released it.
Unlocked(holder, fd) == [holder EXCEPT ![fd] = 0]

\* finally: fcntl.flock(lock_fd, fcntl.LOCK_UN)
MarkUnlock(p) ==
    /\ pc[p] = "mark_unlock"
    /\ lockHolder' = Unlocked(lockHolder, lockFd[p])
    /\ pc' = [pc EXCEPT ![p] = "mark_close"]
    /\ UNCHANGED <<args, ret, clock, files, lockPath, cfg, idx, attempt, data,
                   lockFd, runs, pings, marked, startMarked, invoked, everCorrupt,
                   result, calls, before,
                   entry, shutdown, raising, waits,
                   checked>>

\* os.close(lock_fd)
MarkClose(p) ==
    /\ pc[p] = "mark_close"
    /\ lockFd' = [lockFd EXCEPT ![p] = 0]
    /\ pc' = [pc EXCEPT ![p] = "mark_unlink"]
    /\ UNCHANGED <<args, ret, clock, files, lockPath, lockHolder, cfg, idx,
                   attempt, data, runs, pings, marked, startMarked, invoked,
                   everCorrupt,
                   result, calls, before,
                   entry, shutdown, raising, waits,
                   checked>>

\* os.unlink(lock_file), whatever inode the name now points to; then an
\* exception raised in the call goes on to the caller, or
\* mark_ping_sent_today returns: run_once returns True, run leaves its
\* retry loop and goes on with the next window.
MarkUnlink(p) ==
    /\ pc[p] = "mark_unlink"
    /\ lockPath' = 0
    /\ IF raising[p]
          THEN /\ pc' = [pc EXCEPT ![p] = "raised"]
               /\ UNCHANGED <<marked, result, idx>>
       ELSE IF entry[p] = "run"
          THEN /\ marked' = marked \cup {<<clock.date, TimeStr(p)>>}
               /\ pc' = [pc EXCEPT ![p] = "check"]
               /\ idx' = [idx EXCEPT ![p] = @ + 1]
               /\ UNCHANGED result
       ELSE /\ marked' = marked \cup {<<clock.date, TimeStr(p)>>}
            /\ pc' = [pc EXCEPT ![p] = "done"]
            /\ result' = [result EXCEPT ![p] = ReturnAfterDispatch]
            /\ UNCHANGED idx
    /\ UNCHANGED <<args, ret, clock, files, lockHolder, cfg, attempt, data,
                   lockFd, runs, pings, startMarked, invoked, everCorrupt,
                   calls, before, entry, shutdown, raising, waits,
                   checked>>

\* The process dies inside mark_ping_sent_today with the lock file open:
\* the kernel closes lock_fd, which drops its flock; its files stay.
Crash(p) ==
    /\ lockFd[p] # 0
    /\ lockHolder' = [i \in DOMAIN lockHolder |->
                         IF lockHolder[i] = p THEN 0 ELSE lockHolder[i]]
    /\ lockFd' = [lockFd EXCEPT ![p] = 0]
    /\ pc' = [pc EXCEPT ![p] = "crashed"]
    /\ UNCHANGED <<args, ret, clock, files, lockPath, cfg, idx, attempt, data,
                   runs, pings, marked, startMarked, invoked, everCorrupt,
                   result, calls, before,
                   entry, shutdown, raising, waits,
                   checked>>

\* Something outside the program (a disk fault, an editor, a writer that
\* does not replace atomically) leaves text that is not JSON at
\* LAST_PINGS_FILE.  It happens at most once in a run.
CorruptLedger ==
    /\ ~everCorrupt
    /\ everCorrupt' = TRUE
    /\ files' = [files EXCEPT ![LedgerPath] = Corrupt]
    /\ UNCHANGED <<args, ret, clock, lockPath, lockHolder, pc, cfg, idx, attempt,
                   data, lockFd, runs, pings, marked, startMarked, invoked,
                   result, calls, before,
                   entry, shutdown, raising, waits,
                   checked>>

\* One step of run_once or of the mark_ping_sent_today it calls.
Step(p) ==
    \/ Start(p)
    \/ CheckWindow(p)
    \/ RateLimit(p)
    \/ SendPing(p)
    \/ MarkOpen(p)
    \/ MarkFlock(p)
    \/ MarkRead(p)
    \/ MarkMkstemp(p)
    \/ MarkWrite(p)
    \/ MarkReplace(p)
    \/ MarkUnlock(p)
    \/ MarkClose(p)
    \/ MarkUnlink(p)

\* One step of the recovery from a ledger file that is not JSON.
BackupStep(p) ==
    \/ CheckBackup(p)
    \/ RateLimitBackup(p)
    \/ MarkBackup(p)

Next ==
    \/ \E p \in Runners : Step(p) \/ BackupStep(p) \/ Crash(p)
    \/ CorruptLedger

Spec == Init /\ [][Next]_vars

--------------------------------------------------------------------------
(* SpecLedger: several invocations mark their windows at the same time.   *)

\* The Config of writer p and the index of its window that is due at
\* 09:05.  Writer 1 starts work at 09:01: its first window.  The others
\* start at 23:02, 23:03, ...: their third window, ten hours on, has the
\* key 33:02, 33:03, ... and is due from 08:47 to 09:17 and later.
WriterStartTime(p) == IF p = 1 THEN ConfigStartTime(1) ELSE FormatTime(23, p)

WriterIdx(p) == IF p = 1 THEN 1 ELSE 3

WriterKey(p) ==
    calculate_ping_times(WriterStartTime(p), DefaultWorkEndTime,
                         DefaultNumPings)[WriterIdx(p)]

\* On a Monday at 09:05 no ledger exists; each writer has found its own
\* window due, unsent and not rate-limited, its send_ping has succeeded and
\* it is about to call mark_ping_sent_today.  The observer has not begun: it
\* loads the Config of writer 1.
InitLedger ==
    /\ args = <<>>
    /\ ret = <<>>
    /\ clock = [date |-> 7, minute |-> StartMinute]
    /\ files = [f \in Paths |-> Absent]
    /\ everCorrupt = FALSE
    /\ lockPath = 0
    /\ lockHolder = [i \in 1..(NumProcs + 1) |-> 0]
    /\ pc = [p \in Procs |-> IF p \in Writers THEN "mark_open" ELSE "idle"]
    /\ cfg = [p \in Procs |-> IF p \in Writers THEN WriterStartTime(p)
                              ELSE ConfigStartTime(1)]
    /\ idx = [p \in Procs |-> IF p \in Writers THEN WriterIdx(p) ELSE 0]
    /\ attempt = [p \in Procs |-> 0]
    /\ data = [p \in Procs |-> {}]
    /\ lockFd = [p \in Procs |-> 0]
    /\ runs = [p \in Procs |-> IF p = Observer THEN MaxRuns - 1 ELSE MaxRuns]
    /\ pings = {<<7, WriterKey(p), p, MaxRuns, StartMinute>> : p \in Writers}
    /\ marked = {}
    /\ startMarked = [p \in Procs |-> {}]
    /\ invoked = [p \in Procs |-> IF p \in Writers THEN {WriterKey(p)} ELSE {}]
    /\ result = [p \in Procs |-> FALSE]
    /\ calls = [p \in Procs |-> IF p \in Writers THEN <<TRUE>> ELSE <<>>]
    /\ before = [p \in Procs |-> {}]
    /\ entry = [p \in Procs |-> "run_once"]
    /\ shutdown = [p \in Procs |-> FALSE]
    /\ raising = [p \in Procs |-> FALSE]
    /\ waits = [p \in Procs |-> <<>>]
    /\ checked = [p \in Procs |-> 0]

NextLedger == \E p \in Writers \cup {Observer} : Step(p)

SpecLedger == InitLedger /\ [][NextLedger]_vars

\* The state of the directory and of the processes while a pure function
\* is under check: nothing exists, nobody runs.
IdleSystem ==
    /\ clock = [date |-> 0, minute |-> 0]
    /\ files = [f \in Paths |-> Absent]
    /\ everCorrupt = FALSE
    /\ cfg = [p \in Procs |-> <<>>]
    /\ NoProcessRuns

--------------------------------------------------------------------------
(* Inputs of the pure functions.                                          *)

\* The largest num_pings tried: the smallest count at which some hour
\* needs three digits is 17.
MaxNumPings == 17

\* "HH:MM" for every minute of the day.
CanonicalTimes == {FormatTime(h, m) : h \in 0..23, m \in 0..59}

\* Texts the validator accepts besides the zero-padded ones, because int()
\* takes a blank or a sign: " 9:00", "+9:00", "09: 5".
LenientTimes ==
    { <<" ", "9", ":", "0", "0">>, <<"+", "9", ":", "0", "0">>,
      <<"0", "9", ":", " ", "5">> }

WorkStartTimes == {v \in CanonicalTimes \cup LenientTimes : ValidWorkTime(v)}

WorkEndTimes == {FormatTime(12, 0), FormatTime(17, 0), FormatTime(18, 0)}

\* A Config that passes validation: the default work_end_time is not
\* validated, a given one must lie after work_start_time.
ValidConfig(start, end) ==
    /\ ValidWorkTime(start)
    /\ \/ end = DefaultWorkEndTime
       \/ ValidWorkTime(end) /\ ValidWorkTimesOrder(start, end)

--------------------------------------------------------------------------
(* SpecTimes: calculate_ping_times applied to every valid Config.         *)

InitTimes ==
    /\ \E start \in WorkStartTimes, end \in WorkEndTimes, n \in 0..MaxNumPings :
           /\ ValidConfig(start, end)
           /\ args = [work_start_time |-> start, work_end_time |-> end,
                      num_pings |-> n]
    /\ ret = [fn |-> "none", times |-> <<>>]
    /\ IdleSystem

CallCalculatePingTimes ==
    /\ ret.fn = "none"
    /\ ret' = [fn |-> "calculate_ping_times",
               times |-> calculate_ping_times(args.work_start_time,
                                              args.work_end_time, args.num_pings)]
    /\ UNCHANGED <<args, sysvars>>

\* The package's variant takes no count: it is called where num_pings is
\* the default.
CallPkgCalculatePingTimes ==
    /\ ret.fn = "none"
    /\ args.num_pings = DefaultNumPings
    /\ ret' = [fn |-> "pkg_calculate_ping_times",
               times |-> pkg_calculate_ping_times(args.work_start_time)]
    /\ UNCHANGED <<args, sysvars>>

NextTimes == CallCalculatePingTimes \/ CallPkgCalculatePingTimes

SpecTimes == InitTimes /\ [][NextTimes]_vars

--------------------------------------------------------------------------
(* SpecDue: is_time_to_ping applied to every scheduled time and clock.    *)

\* The scheduled times tried: every hour, at minutes on both sides of the
\* hour's and the day's ends; the clock is tried at every minute of the day.
ScheduledTimes == {FormatTime(h, m) : h \in 0..23, m \in {0, 5, 29, 30, 55, 59}}

InitDue ==
    /\ \E s \in ScheduledTimes, h \in 0..23, m \in 0..59 :
           args = [scheduled_time |-> s, hour |-> h, minute |-> m]
    /\ ret = [fn |-> "none", due |-> FALSE]
    /\ IdleSystem

CallIsTimeToPing ==
    /\ ret.fn = "none"
    /\ ret' = [fn |-> "is_time_to_ping",
               due |-> is_time_to_ping(args.scheduled_time, args.hour, args.minute)]
    /\ UNCHANGED <<args, sysvars>>

NextDue == CallIsTimeToPing

SpecDue == InitDue /\ [][NextDue]_vars

--------------------------------------------------------------------------
(* SpecPrune: mark_ping_sent_today called on ledgers of earlier days.     *)

\* The process that calls mark_ping_sent_today, one call after the other:
\* what one call does to the ledger it finds.  Calls that overlap are the
\* subject of SpecLedger.
Caller == 1

\* How many days before the call the entries of the ledger were recorded.
EntryAges == {0, 3, 7, 8}

\* The ledgers the call may find: any entries of those ages for the first
\* two windows of the caller's Config.
PruneLedgers(today) ==
    SUBSET { <<today - a, PingTimes(Caller)[i]>> : a \in EntryAges, i \in 1..2 }

MarkStep(p) ==
    \/ MarkOpen(p)
    \/ MarkFlock(p)
    \/ MarkRead(p)
    \/ MarkMkstemp(p)
    \/ MarkWrite(p)
    \/ MarkReplace(p)
    \/ MarkUnlock(p)
    \/ MarkClose(p)
    \/ MarkUnlink(p)

InitPrune ==
    /\ args = [before |-> {}, content |-> Absent]
    /\ ret = <<>>
    /\ \E d \in StartDates : clock = [date |-> d, minute |-> StartMinute]
    /\ cfg = [p \in Procs |-> ConfigStartTime(1)]
    /\ \E d \in PruneLedgers(clock.date) :
           files = [f \in Paths |-> IF f = LedgerPath /\ d # {}
                                       THEN JsonFile(d) ELSE Absent]
    /\ everCorrupt = FALSE
    /\ NoProcessRuns

\* mark_ping_sent_today(time_str) is called with the first window of the
\* Config; args.before keeps the mapping the ledger file held at the call,
\* args.content the content of the file.
CallMark(p) ==
    /\ pc[p] \in {"idle", "done"}
    /\ runs[p] < MaxRuns
    /\ runs' = [runs EXCEPT ![p] = @ + 1]
    /\ idx' = [idx EXCEPT ![p] = 1]
    /\ args' = [before |-> ReadPings(files[LedgerPath]),
                content |-> files[LedgerPath]]
    /\ pc' = [pc EXCEPT ![p] = "mark_open"]
    /\ UNCHANGED <<ret, clock, files, lockPath, lockHolder, cfg, attempt, data,
                   lockFd, pings, marked, startMarked, invoked, everCorrupt,
                   result, calls, before,
                   entry, shutdown, raising, waits,
                   checked>>

NextPrune == CallMark(Caller) \/ MarkStep(Caller)

SpecPrune == InitPrune /\ [][NextPrune]_vars

--------------------------------------------------------------------------
(* SpecFail: mark_ping_sent_today when writing the new ledger may fail.   *)

\* The except block of the write ends with raise.  A faulty variant logs
\* the error and goes on.
ReraiseOmitted == FALSE

Reraise == TRUE

\* os.unlink(temp_path) in the except block of the write.  A faulty
\* variant leaves the temporary file where it is.
UnlinkTempOmitted(fs, p) == fs

UnlinkTemp(fs, p) == [fs EXCEPT ![WritePath(p)] = Absent]

\* json.dump, flush, fsync, os.chmod or os.replace raises (disk full,
\* permission denied): the except block unlinks the temporary file and
\* raises again; the finally block is next.
MarkFail(p) ==
    /\ pc[p] \in {"mark_write", "mark_replace"}
    /\ files' = UnlinkTemp(files, p)
    /\ raising' = [raising EXCEPT ![p] = Reraise]
    /\ pc' = [pc EXCEPT ![p] = "mark_unlock"]
    /\ UNCHANGED <<args, ret, clock, lockPath, lockHolder, cfg, idx, attempt,
                   data, lockFd, runs, pings, marked, startMarked, invoked,
                   everCorrupt, result, calls, before, entry, shutdown, waits,
                   checked>>

\* The call finds no ledger file, a ledger of earlier days or text that is
\* not JSON.
InitFail ==
    /\ args = [before |-> {}, content |-> Absent]
    /\ ret = <<>>
    /\ \E d \in StartDates : clock = [date |-> d, minute |-> StartMinute]
    /\ cfg = [p \in Procs |-> ConfigStartTime(1)]
    /\ \E c \in {Absent, Corrupt}
                 \cup {JsonFile(d) : d \in PruneLedgers(clock.date) \ {{}}} :
           /\ files = [f \in Paths |-> IF f = LedgerPath THEN c ELSE Absent]
           /\ everCorrupt = (c = Corrupt)
    /\ NoProcessRuns

NextFail ==
    \/ CallMark(Caller)
    \/ MarkStep(Caller)
    \/ MarkBackup(Caller)
    \/ MarkFail(Caller)

SpecFail == InitFail /\ [][NextFail]_vars

--------------------------------------------------------------------------
(* SpecExit: every way out of mark_ping_sent_today: the return, and the   *)
(* exceptions of reading, of creating the temporary file, of writing.     *)

\* tempfile.mkstemp raises (no space, no permission): no file was
\* created, the inner try was not entered, the finally block is next.
MkstempFail(p) ==
    /\ pc[p] = "mark_mkstemp"
    /\ raising' = [raising EXCEPT ![p] = TRUE]
    /\ pc' = [pc EXCEPT ![p] = "mark_unlock"]
    /\ UNCHANGED <<args, ret, clock, files, lockPath, lockHolder, cfg, idx,
                   attempt, data, lockFd, runs, pings, marked, startMarked,
                   invoked, everCorrupt, result, calls, before, entry, shutdown,
                   waits, checked>>

\* The call finds no ledger file, a ledger of earlier days, text that is
\* not JSON, or JSON that is no mapping.
InitExit ==
    /\ args = [before |-> {}, content |-> Absent]
    /\ ret = <<>>
    /\ \E d \in StartDates : clock = [date |-> d, minute |-> StartMinute]
    /\ cfg = [p \in Procs |-> ConfigStartTime(1)]
    /\ \E c \in {Absent, Corrupt, NotMapping}
                 \cup {JsonFile(d) : d \in PruneLedgers(clock.date) \ {{}}} :
           /\ files = [f \in Paths |-> IF f = LedgerPath THEN c ELSE Absent]
           /\ everCorrupt = (c = Corrupt)
    /\ NoProcessRuns

NextExit ==
    \/ CallMark(Caller)
    \/ MarkStep(Caller)
    \/ MarkBackup(Caller)
    \/ MkstempFail(Caller)
    \/ MarkFail(Caller)

SpecExit == InitExit /\ [][NextExit]_vars

--------------------------------------------------------------------------
(* SpecLive: invocations of run_once that overlap, each of them going on  *)
(* as long as it can.                                                     *)

\* One step of an invocation of run_once that is under way; whether and
\* when an invocation begins is up to the timer and the user.
Proceed(p) == pc[p] \notin {"idle", "done"} /\ Step(p)

\* Monday, 09:05, no ledger yet; each process has its own Config.
InitLive ==
    /\ args = <<>>
    /\ ret = <<>>
    /\ clock = [date |-> 7, minute |-> StartMinute]
    /\ files = [f \in Paths |-> Absent]
    /\ everCorrupt = FALSE
    /\ cfg = [p \in Procs |-> IF p \in Runners THEN ConfigStartTime(p)
                              ELSE ConfigStartTime(1)]
    /\ NoProcessRuns

NextLive == \E p \in Runners : Step(p)

\* A process that can take a step takes one in the end: send_ping returns
\* within its timeout, time.sleep returns, and flock returns once the lock
\* is free and stays free.
SpecLive ==
    InitLive /\ [][NextLive]_vars /\ \A p \in Runners : WF_vars(Proceed(p))

--------------------------------------------------------------------------
(* SpecOnce: run_once invoked again and again by a timer, one invocation  *)
(* at a time, while the clock moves on across midnight.                   *)

\* The evening the run begins: a Monday, a Friday or a Saturday.
OnceStartDates == {7, 11, 12}

\* The clock at the first invocation, 23:30, and the minute of the next
\* day after which no invocation begins.
OnceStartMinute == 1410

OnceEndMinute == 15

\* Minutes between two firings of the timer: OnCalendar=*:0/15.
TickMinutes == 15

\* The Config of each invocation's process: work starts at 00:00, for the
\* second process at 23:45.
OnceStartTime(p) == IF p = 2 THEN FormatTime(23, 45) ELSE FormatTime(0, 0)

\* The positions of a process with no invocation under way: not begun,
\* returned, ended by an exception, ended by a signal.
Ended == {"idle", "done", "raised", "killed"}

\* No invocation but that of p is under way.
Quiet(p) == \A q \in Procs \ {p} : pc[q] \in Ended

InitOnce ==
    /\ args = <<>>
    /\ ret = <<>>
    /\ \E d \in OnceStartDates : clock = [date |-> d, minute |-> OnceStartMinute]
    /\ files = [f \in Paths |-> Absent]
    /\ everCorrupt = FALSE
    /\ cfg = [p \in Procs |-> OnceStartTime(p)]
    /\ NoProcessRuns

\* Time passes between two invocations.
Tick ==
    /\ \A q \in Procs : pc[q] \in Ended
    /\ clock.minute >= OnceStartMinute \/ clock.minute < OnceEndMinute
    /\ clock' = [date   |-> clock.date + (clock.minute + TickMinutes) \div MinutesPerDay,
                 minute |-> (clock.minute + TickMinutes) % MinutesPerDay]
    /\ UNCHANGED <<args, ret, files, lockPath, lockHolder, pc, cfg, idx, attempt,
                   data, lockFd, runs, pings, marked, startMarked, invoked,
                   everCorrupt, result, calls, before,
                   entry, shutdown, raising, waits,
                   checked>>

NextOnce ==
    \/ \E p \in Runners : Quiet(p) /\ Step(p)
    \/ Tick

SpecOnce == InitOnce /\ [][NextOnce]_vars

--------------------------------------------------------------------------
(* SpecRun: run and run_once, one invocation at a time at 09:05, with     *)
(* SIGTERM delivered at any moment of an invocation.                      *)

\* signal_handler.shutdown_requested as the loops of run read it.  A faulty
\* variant reads a flag the handler never sets.
shutdown_requested_stale(p) == FALSE

shutdown_requested(p) == shutdown[p]

\* run up to the loop: a new SignalHandler is installed, should_run_today,
\* calculate_ping_times.  run returns None; result keeps no value of it.
Run(p) ==
    /\ pc[p] \in {"idle", "done"}
    /\ runs[p] < MaxRuns
    /\ runs' = [runs EXCEPT ![p] = @ + 1]
    /\ startMarked' = [startMarked EXCEPT ![p] = marked]
    /\ invoked' = [invoked EXCEPT ![p] = {}]
    /\ idx' = [idx EXCEPT ![p] = 1]
    /\ attempt' = [attempt EXCEPT ![p] = 0]
    /\ data' = [data EXCEPT ![p] = {}]
    /\ pc' = [pc EXCEPT ![p] = IF should_run_today(clock) THEN "check" ELSE "done"]
    /\ result' = [result EXCEPT ![p] = FALSE]
    /\ calls' = [calls EXCEPT ![p] = <<>>]
    /\ before' = [before EXCEPT ![p] = ReadPings(files[LedgerPath])]
    /\ entry' = [entry EXCEPT ![p] = "run"]
    /\ waits' = [waits EXCEPT ![p] = <<>>]
    /\ shutdown' = [shutdown EXCEPT ![p] = FALSE]
    /\ UNCHANGED <<args, ret, clock, files, lockPath, lockHolder, cfg, lockFd,
                   pings, marked, everCorrupt, raising, checked>>

\* The head of the loop body of run: if shutdown_requested: break; then
\* is_time_to_ping(time_str) and not was_ping_sent_today(time_str).
RunCheckWindow(p) ==
    /\ pc[p] = "check"
    /\ entry[p] = "run"
    /\ IF idx[p] > Len(PingTimes(p)) \/ shutdown_requested(p)
          THEN pc' = [pc EXCEPT ![p] = "done"] /\ UNCHANGED idx
       ELSE IF ~is_time_to_ping(TimeStr(p), clock.minute \div 60, clock.minute % 60)
          THEN idx' = [idx EXCEPT ![p] = @ + 1] /\ UNCHANGED pc
       ELSE IF NotADict(files[LedgerPath])
          THEN pc' = [pc EXCEPT ![p] = "raised"] /\ UNCHANGED idx
       ELSE IF Undecodable(files[LedgerPath])
          THEN pc' = [pc EXCEPT ![p] = "check_backup"] /\ UNCHANGED idx
       ELSE IF was_ping_sent_today(ReadPings(files[LedgerPath]), TimeStr(p), clock)
          THEN idx' = [idx EXCEPT ![p] = @ + 1] /\ UNCHANGED pc
       ELSE pc' = [pc EXCEPT ![p] = "ratelimit"] /\ UNCHANGED idx
    /\ UNCHANGED <<args, ret, clock, files, lockPath, lockHolder, cfg, attempt,
                   data, lockFd, runs, pings, marked, startMarked, invoked,
                   everCorrupt, result, calls, before, entry, shutdown, raising,
                   waits>>
    /\ checked' = [checked EXCEPT ![p] =
                      IF idx[p] <= Len(PingTimes(p))
                         /\ ~shutdown_requested(p)
                         /\ is_time_to_ping(TimeStr(p), clock.minute \div 60,
                                            clock.minute % 60)
                         THEN clock.date ELSE @]

\* One attempt of the retry loop of run: if shutdown_requested: break, which
\* leaves the retry loop for the next window; else send_ping succeeds and the
\* window is about to be marked, or it fails and the wait begins, or it fails
\* for the last time and the loop over the windows goes on.
RunSendPing(p) ==
    /\ pc[p] = "send"
    /\ entry[p] = "run"
    /\ IF shutdown_requested(p)
          THEN /\ pc' = [pc EXCEPT ![p] = "check"]
               /\ idx' = [idx EXCEPT ![p] = @ + 1]
               /\ UNCHANGED <<invoked, calls, pings, waits>>
       ELSE /\ invoked' = [invoked EXCEPT ![p] = @ \cup {TimeStr(p)}]
            /\ \/ /\ pings' = pings \cup {<<clock.date, TimeStr(p), p, runs[p],
                                             clock.minute>>}
                  /\ calls' = [calls EXCEPT ![p] = Append(@, TRUE)]
                  /\ pc' = [pc EXCEPT ![p] = "mark_open"]
                  /\ UNCHANGED <<idx, waits>>
               \/ /\ RetryAgain(attempt[p])
                  /\ calls' = [calls EXCEPT ![p] = Append(@, FALSE)]
                  /\ pc' = [pc EXCEPT ![p] = "backoff"]
                  /\ waits' = [waits EXCEPT ![p] = Append(@, WaitTime(attempt[p]))]
                  /\ UNCHANGED <<idx, pings>>
               \/ /\ ~RetryAgain(attempt[p])
                  /\ calls' = [calls EXCEPT ![p] = Append(@, FALSE)]
                  /\ idx' = [idx EXCEPT ![p] = @ + 1]
                  /\ pc' = [pc EXCEPT ![p] = AfterExhausted]
                  /\ UNCHANGED <<pings, waits>>
    /\ UNCHANGED <<args, ret, clock, files, lockPath, lockHolder, cfg, attempt,
                   data, lockFd, runs, marked, startMarked, everCorrupt, result,
                   before, entry, shutdown, raising, checked>>

\* The wait between two attempts of run, a loop that polls the flag: if
\* shutdown_requested: return; when wait_time has passed the next attempt
\* begins.
RunBackoff(p) ==
    /\ pc[p] = "backoff"
    /\ IF shutdown_requested(p)
          THEN pc' = [pc EXCEPT ![p] = "done"] /\ UNCHANGED attempt
       ELSE /\ pc' = [pc EXCEPT ![p] = "send"]
            /\ attempt' = [attempt EXCEPT ![p] = @ + 1]
    /\ UNCHANGED <<args, ret, clock, files, lockPath, lockHolder, cfg, idx,
                   data, lockFd, runs, pings, marked, startMarked, invoked,
                   everCorrupt, result, calls, before, entry, shutdown, raising,
                   waits,
                   checked>>

\* SIGTERM reaches a process whose invocation is under way.  In run the
\* installed SignalHandler sets shutdown_requested; run_once installs no
\* handler, the process is terminated and the kernel closes its lock_fd.
Signal(p) ==
    /\ pc[p] \notin Ended \cup {"crashed"}
    /\ IF entry[p] = "run"
          THEN /\ shutdown' = [shutdown EXCEPT ![p] = TRUE]
               /\ UNCHANGED <<lockHolder, lockFd, pc>>
       ELSE /\ lockHolder' = [i \in DOMAIN lockHolder |->
                                 IF lockHolder[i] = p THEN 0 ELSE lockHolder[i]]
            /\ lockFd' = [lockFd EXCEPT ![p] = 0]
            /\ pc' = [pc EXCEPT ![p] = "killed"]
            /\ UNCHANGED shutdown
    /\ UNCHANGED <<args, ret, clock, files, lockPath, cfg, idx, attempt, data,
                   runs, pings, marked, startMarked, invoked, everCorrupt,
                   result, calls, before, entry, raising, waits,
                   checked>>

\* One step of run outside the functions it shares with run_once.
RunStep(p) ==
    \/ Run(p)
    \/ RunCheckWindow(p)
    \/ RunSendPing(p)
    \/ RunBackoff(p)

\* A Monday at 09:05, no ledger yet; process p has loaded the Config whose
\* work_start_time is 09:0p.
InitRun ==
    /\ args = <<>>
    /\ ret = <<>>
    /\ clock = [date |-> 7, minute |-> StartMinute]
    /\ files = [f \in Paths |-> Absent]
    /\ everCorrupt = FALSE
    /\ cfg = [p \in Procs |-> ConfigStartTime(IF p \in Runners THEN p ELSE 1)]
    /\ NoProcessRuns

NextRun ==
    \/ \E p \in Runners : Quiet(p) /\ (Step(p) \/ RunStep(p))
    \/ \E p \in Runners : Signal(p)

SpecRun == InitRun /\ [][NextRun]_vars

--------------------------------------------------------------------------
(* SpecCli: the command run of the command line, one invocation at a time *)
(* at 09:05, with SIGTERM delivered at any moment of an invocation.       *)

\* cmd_run: the Config is loaded and run_once(config) is called.
cmd_run(p) == Start(p)

NextCli ==
    \/ \E p \in Runners :
          Quiet(p) /\ (\/ cmd_run(p)
                       \/ CheckWindow(p)
                       \/ RateLimit(p)
                       \/ SendPing(p)
                       \/ MarkStep(p))
    \/ \E p \in Runners : Signal(p)

SpecCli == Init /\ [][NextCli]_vars

--------------------------------------------------------------------------
(* SpecMarkFail: run_once, one invocation at a time while the first       *)
(* window is due, when writing the new ledger may fail.                   *)

NextMarkFail == \E p \in Runners : Quiet(p) /\ (Step(p) \/ MarkFail(p))

SpecMarkFail == Init /\ [][NextMarkFail]_vars

--------------------------------------------------------------------------
(* SpecLazy: run, run_once and the dry run of the command test, one       *)
(* invocation at a time at 09:05, with SIGTERM delivered at any moment.   *)

\* A faulty variant of the reads: a ledger file that is missing is created
\* empty.
ReadAllCreates(fs) ==
    IF fs[LedgerPath].kind = "absent"
       THEN [fs EXCEPT ![LedgerPath] = JsonFile({})]
    ELSE fs

\* What the reads of cmd_test do to the directory: was_ping_sent_today is
\* called for every window, and _read_pings_file renames a file that is
\* not JSON.
ReadAll(fs) == IF Undecodable(fs[LedgerPath]) THEN RenameAside(fs) ELSE fs

\* cmd_test: should_run_today, calculate_ping_times, then is_time_to_ping
\* and was_ping_sent_today for every window; nothing is sent or marked.
cmd_test(p) ==
    /\ pc[p] \in {"idle", "done"}
    /\ runs[p] < MaxRuns
    /\ runs' = [runs EXCEPT ![p] = @ + 1]
    /\ startMarked' = [startMarked EXCEPT ![p] = marked]
    /\ invoked' = [invoked EXCEPT ![p] = {}]
    /\ calls' = [calls EXCEPT ![p] = <<>>]
    /\ waits' = [waits EXCEPT ![p] = <<>>]
    /\ before' = [before EXCEPT ![p] = ReadPings(files[LedgerPath])]
    /\ entry' = [entry EXCEPT ![p] = "cmd_test"]
    /\ IF should_run_today(clock)
          THEN /\ files' = ReadAll(files)
               /\ pc' = [pc EXCEPT ![p] = IF NotADict(files[LedgerPath])
                                             THEN "raised" ELSE "done"]
       ELSE /\ pc' = [pc EXCEPT ![p] = "done"]
            /\ UNCHANGED files
    /\ UNCHANGED <<args, ret, clock, lockPath, lockHolder, cfg, idx, attempt,
                   data, lockFd, pings, marked, everCorrupt, result, shutdown,
                   raising, checked>>

\* A Monday or a Saturday at 09:05, no ledger yet; process p has loaded the
\* Config whose work_start_time is 09:0p.
InitLazy ==
    /\ args = <<>>
    /\ ret = <<>>
    /\ \E d \in StartDates : clock = [date |-> d, minute |-> StartMinute]
    /\ files = [f \in Paths |-> Absent]
    /\ everCorrupt = FALSE
    /\ cfg = [p \in Procs |-> ConfigStartTime(IF p \in Runners THEN p ELSE 1)]
    /\ NoProcessRuns

NextLazy ==
    \/ \E p \in Runners : Quiet(p) /\ (Step(p) \/ RunStep(p) \/ cmd_test(p))
    \/ \E p \in Runners : Signal(p)

SpecLazy == InitLazy /\ [][NextLazy]_vars

--------------------------------------------------------------------------
(* SpecMidnight: run_once, one invocation at a time, begun a minute       *)
(* before midnight, while the clock moves on during the invocation.       *)

\* The clock at the start, 23:59, and the minute of the next day after
\* which it moves no further.
MidnightStartMinute == 1439

MidnightEndMinute == 2

\* A minute passes: in a send_ping call, which may last up to its timeout
\* of 30 seconds and more, in a wait of the retry loop, or anywhere else.
Elapse ==
    /\ clock.minute >= MidnightStartMinute \/ clock.minute < MidnightEndMinute
    /\ clock' = [date   |-> clock.date + (clock.minute + 1) \div MinutesPerDay,
                 minute |-> (clock.minute + 1) % MinutesPerDay]
    /\ UNCHANGED <<args, ret, files, lockPath, lockHolder, pc, cfg, idx, attempt,
                   data, lockFd, runs, pings, marked, startMarked, invoked,
                   everCorrupt, result, calls, before, entry, shutdown, raising,
                   waits, checked>>

\* Monday, 23:59, no ledger yet; the Configs are those of SpecOnce, whose
\* first windows, 00:00 and 23:45, are due.
InitMidnight ==
    /\ args = <<>>
    /\ ret = <<>>
    /\ clock = [date |-> 7, minute |-> MidnightStartMinute]
    /\ files = [f \in Paths |-> Absent]
    /\ everCorrupt = FALSE
    /\ cfg = [p \in Procs |-> OnceStartTime(p)]
    /\ NoProcessRuns

NextMidnight ==
    \/ \E p \in Runners : Quiet(p) /\ Step(p)
    \/ Elapse

SpecMidnight == InitMidnight /\ [][NextMidnight]_vars

--------------------------------------------------------------------------
(* SpecRead: run_once, one invocation at a time at 09:05, on a ledger     *)
(* file that something outside the program may damage.                    *)

\* Content that is no ledger: text that is not JSON, JSON of a list, a file
\* without read permission.
DamagedContents == {Corrupt, NotMapping, Unreadable}

\* Something outside the program leaves such content at LAST_PINGS_FILE,
\* at most once in a run.
DamageLedger ==
    /\ ~everCorrupt
    /\ everCorrupt' = TRUE
    /\ \E c \in DamagedContents : files' = [files EXCEPT ![LedgerPath] = c]
    /\ UNCHANGED <<args, ret, clock, lockPath, lockHolder, pc, cfg, idx, attempt,
                   data, lockFd, runs, pings, marked, startMarked, invoked,
                   result, calls, before, entry, shutdown, raising, waits,
                   checked>>

NextRead ==
    \/ \E p \in Runners : Quiet(p) /\ (Step(p) \/ BackupStep(p))
    \/ DamageLedger

SpecRead == Init /\ [][NextRead]_vars

--------------------------------------------------------------------------
(* SpecRate: should_rate_limit applied to ledgers the program can leave.  *)

\* Keys of recorded windows: calculate_ping_times returns every one of them
\* for some work_start_time (24:00 from 14:00 or 19:00, 33:30 from 23:30).
RateKeys == {FormatTime(h, m) : h \in {0, 9, 10, 23, 24, 33}, m \in {0, 30}}

\* The date of the call and the day before it.
RateDates == {6, 7}

\* The ledgers should_rate_limit reads: none, one or two recorded windows.
RateLedgers ==
    {{}} \cup {{a, b} : a \in RateDates \X RateKeys, b \in RateDates \X RateKeys}

\* datetime.now() of the call: on day 7, at these minutes of every hour.
RateNowMinutes == {h * 60 + m : h \in 0..23, m \in {0, 1, 29, 30, 59}}

InitRate ==
    /\ args = <<>>
    /\ ret = [fn |-> "none", limited |-> FALSE]
    /\ \E m \in RateNowMinutes : clock = [date |-> 7, minute |-> m]
    /\ \E d \in RateLedgers :
           files = [f \in Paths |-> IF f = LedgerPath /\ d # {}
                                       THEN JsonFile(d) ELSE Absent]
    /\ everCorrupt = FALSE
    /\ cfg = [p \in Procs |-> <<>>]
    /\ NoProcessRuns

CallShouldRateLimit ==
    /\ ret.fn = "none"
    /\ ret' = [fn |-> "should_rate_limit",
               limited |-> should_rate_limit(ReadPings(files[LedgerPath]), clock)]
    /\ UNCHANGED <<args, sysvars>>

NextRate == CallShouldRateLimit

SpecRate == InitRate /\ [][NextRate]_vars

--------------------------------------------------------------------------
(* Properties of the dispatch loop and of the ledger (Spec, SpecLedger).  *)

\* The mapping a reader of LAST_PINGS_FILE gets now.
Ledger == ReadPings(files[LedgerPath])

\* C1: send_ping succeeds at most once for each (date, window): no two
\* invocations both dispatch the same window of the same date.
C1_AtMostOneDispatchPerWindow ==
    \A e1, e2 \in pings : (e1[1] = e2[1] /\ e1[2] = e2[2]) => e1 = e2

\* C2: when processes have called mark_ping_sent_today with pairwise
\* distinct keys and all calls have returned, the ledger file holds every
\* one of the keys under the date.
C2_NoUpdateLost ==
    ( /\ \A p \in Procs : pc[p] \in {"idle", "done"}
      /\ \A e1, e2 \in pings : e1[2] = e2[2] => e1 = e2 )
    => \A e \in pings : <<e[1], e[2]>> \in Ledger

\* C3: an invocation never calls send_ping for a window whose
\* mark_ping_sent_today had returned, for the same date, before the
\* invocation began, as long as the ledger file was never corrupted.
C3_MarkedWindowNeverSentAgain ==
    ~everCorrupt =>
        \A p \in Procs : \A k \in invoked[p] : <<clock.date, k>> \notin startMarked[p]

\* C4: no step of the program removes an entry that the ledger file holds.
\* (Every date of the run lies within the retention of seven days.)
C4_EntriesNeverLost ==
    [][everCorrupt' = everCorrupt => \A e \in Ledger : e \in Ledger']_vars

\* C5: the text at LAST_PINGS_FILE is only ever changed by the program in
\* one of two ways: os.replace installs the complete JSON text of the
\* mapping the writer built, or the recovery from corruption renames the
\* file away.  No step, a crash of a writer included, leaves there the
\* incomplete text of a write in progress.
C5_LedgerChangesOnlyByReplace ==
    [][ (everCorrupt' = everCorrupt /\ files'[LedgerPath] # files[LedgerPath]) =>
            \/ files'[LedgerPath] = Absent
            \/ \E p \in Procs :
                   /\ pc[p] = "mark_replace"
                   /\ pc'[p] = "mark_unlock"
                   /\ files'[LedgerPath] = JsonFile(data[p]) ]_vars

\* A writer has died between mkstemp and the end of json.dump: its
\* temporary file is incomplete, the ledger file holds complete JSON.
C5_Witness ==
    \E p \in Procs :
        /\ pc[p] = "crashed"
        /\ files[TmpPath(p)] = Torn
        /\ files[LedgerPath].kind = "json"
        /\ files[LedgerPath].data # {}

--------------------------------------------------------------------------
(* Properties of the window membership test (SpecDue).                    *)

\* The distance of two minutes of the day on a circular 1440-minute clock.
CircularDistance(a, b) ==
    LET d == IF a < b THEN b - a ELSE a - b
    IN  IF MinutesPerDay - d < d THEN MinutesPerDay - d ELSE d

\* C6: is_time_to_ping is true exactly when the scheduled time and the clock
\* are at most 15 minutes apart on the circular 1440-minute clock.
C6_DueIffCircularDistanceAtMost15 ==
    ret.fn = "is_time_to_ping" =>
        (ret.due <=>
            CircularDistance(ParseMinutes(args.scheduled_time),
                             args.hour * 60 + args.minute) <= 15)

\* Scheduled 23:55 and the clock at 00:05 the next day: due, ten minutes
\* apart across midnight.
C6_Witness ==
    /\ ret.fn = "is_time_to_ping"
    /\ args.scheduled_time = FormatTime(23, 55)
    /\ args.hour = 0 /\ args.minute = 5
    /\ ret.due

\* C7: is_time_to_ping is symmetric: a schedule at a is due when the clock
\* shows b exactly when a schedule at b is due when the clock shows a.
C7_DueIsSymmetric ==
    ret.fn = "is_time_to_ping" =>
        (ret.due <=>
            is_time_to_ping(FormatTime(args.hour, args.minute),
                            ParseInt(Split(args.scheduled_time)[1]),
                            ParseInt(Split(args.scheduled_time)[2])))

\* Scheduled 00:05 and the clock at 23:55: due, as 23:55 is at 00:05.
C7_Witness ==
    /\ ret.fn = "is_time_to_ping"
    /\ args.scheduled_time = FormatTime(0, 5)
    /\ args.hour = 23 /\ args.minute = 55
    /\ ret.due

--------------------------------------------------------------------------
(* Properties of the time-window calculator (SpecTimes).                  *)

\* A five-character text of two digits, a colon and two digits.
IsHHMM(t) ==
    /\ Len(t) = 5
    /\ t[3] = ":"
    /\ \A i \in {1, 2, 4, 5} : IsDigit(t[i])

\* C8: calculate_ping_times returns exactly num_pings times (3 in the
\* package's variant), each a five-character zero-padded HH:MM text, the
\* first of them equal to work_start_time.
C8_CountFormatAndFirst ==
    ret.fn # "none" =>
        /\ Len(ret.times) = args.num_pings
        /\ \A i \in 1..Len(ret.times) : IsHHMM(ret.times[i])
        /\ Len(ret.times) > 0 => ret.times[1] = args.work_start_time

\* C9: calculate_ping_times returns the starts of the three equal segments
\* of the interval from work_start_time to the configured work_end_time.
C9_ThirdsOfConfiguredInterval ==
    (ret.fn # "none" /\ args.num_pings = DefaultNumPings) =>
        LET start == ParseMinutes(args.work_start_time)
            third == (ParseMinutes(args.work_end_time) - start) \div 3
        IN  ret.times = [i \in 1..3 |->
                            FormatTime((start + (i - 1) * third) \div 60,
                                       (start + (i - 1) * third) % 60)]

C11_HoursWithinDay ==
    ret.fn = "calculate_ping_times" =>
        \A i \in 1..Len(ret.times) :
            /\ Len(Split(ret.times[i])) = 2
            /\ ParseInt(Split(ret.times[i])[1]) \in 0..23
            /\ ParseInt(Split(ret.times[i])[2]) \in 0..59

--------------------------------------------------------------------------
(* Properties of the rate limiter (SpecRate).                             *)

\* The instant a ledger entry names, in minutes: its date plus its key.
Timestamp(e) == e[1] * MinutesPerDay + ParseMinutes(e[2])

\* The instant of the clock, in minutes.
NowMinutes == clock.date * MinutesPerDay + clock.minute

\* C15: should_rate_limit returns true exactly when some entry of the
\* ledger names an instant within the trailing 60 minutes: later than now
\* minus 60 minutes and not later than now.
C15_LimitedIffEntryInTrailingHour ==
    ret.fn = "should_rate_limit" =>
        (ret.limited <=>
            \E e \in Ledger :
                /\ Timestamp(e) > NowMinutes - 60
                /\ Timestamp(e) <= NowMinutes)

--------------------------------------------------------------------------
(* Properties of one mark_ping_sent_today call (SpecPrune).               *)

\* A call of mark_ping_sent_today by the caller has returned.
MarkReturned == pc[Caller] = "done" /\ runs[Caller] >= 1

\* C12: after a completed mark_ping_sent_today the ledger holds no date
\* more than 7 days before the current date, and every entry the ledger
\* held before the call with a date at most 7 days back is still there.
C12_PrunedAfterSevenDays ==
    MarkReturned =>
        /\ \A e \in Ledger : e[1] >= clock.date - 7
        /\ \A e \in args.before : e[1] >= clock.date - 7 => e \in Ledger

\* The ledger held entries of 8, of 7 and of 3 days ago: the first is
\* gone after the call, the other two are kept.
C12_Witness ==
    /\ MarkReturned
    /\ \E k8, k7, k3 \in {PingTimes(Caller)[i] : i \in 1..2} :
           /\ {<<clock.date - 8, k8>>, <<clock.date - 7, k7>>,
               <<clock.date - 3, k3>>} \subseteq args.before
           /\ <<clock.date - 8, k8>> \notin Ledger
           /\ {<<clock.date - 7, k7>>, <<clock.date - 3, k3>>} \subseteq Ledger

\* C13: after mark_ping_sent_today(t) the ledger holds t under today's
\* date, whatever dates it held before.
C13_TodayKeptByPruning ==
    MarkReturned => <<clock.date, TimeStr(Caller)>> \in Ledger

\* The ledger held only entries of 8 days ago, all of them pruned by the
\* call; today's entry is new.
C13_Witness ==
    /\ MarkReturned
    /\ runs[Caller] = 1
    /\ args.before # {}
    /\ \A e \in args.before : e[1] = clock.date - 8
    /\ Ledger = {<<clock.date, TimeStr(Caller)>>}

\* C14: a second mark_ping_sent_today for the same date and key, with no
\* other write in between, leaves the mapping the first call left, the
\* flag still true.
C14_MarkIdempotent ==
    (MarkReturned /\ runs[Caller] >= 2) =>
        /\ Ledger = args.before
        /\ <<clock.date, TimeStr(Caller)>> \in Ledger

\* The second call has returned; the first one had pruned old entries and
\* kept recent ones.
C14_Witness ==
    /\ MarkReturned
    /\ runs[Caller] = 2
    /\ <<clock.date, TimeStr(Caller)>> \in Ledger
    /\ \E e \in Ledger : e[1] = clock.date - 3

--------------------------------------------------------------------------
(* Properties of run_once, one invocation at a time (SpecOnce).           *)

\* The instant of a successful send_ping, in minutes.
DispatchInstant(e) == e[1] * MinutesPerDay + e[5]

\* C16: any two successful dispatches recorded in one ledger are at least
\* 60 minutes apart.
C16_DispatchesAnHourApart ==
    \A e1, e2 \in pings :
        e1 # e2 =>
            \/ DispatchInstant(e1) - DispatchInstant(e2) >= 60
            \/ DispatchInstant(e2) - DispatchInstant(e1) >= 60

\* An invocation of process p ends in this step.
Returns(p) == pc[p] # "done" /\ pc'[p] = "done"

C18_ThreeFailuresThenFalse ==
    [][ \A p \in Procs :
            ( /\ Returns(p)
              /\ calls'[p] # <<>>
              /\ \A i \in 1..Len(calls'[p]) : ~calls'[p][i] )
            => /\ Len(calls'[p]) = 3
               /\ result'[p] = FALSE
               /\ Ledger' = before'[p] ]_vars

\* Three failed attempts for the due window: run_once returned False.
C18_Witness ==
    \E p \in Procs :
        /\ pc[p] = "done"
        /\ calls[p] = <<FALSE, FALSE, FALSE>>
        /\ result[p] = FALSE
        /\ Ledger = before[p]

\* C19: an invocation whose first send_ping fails and whose second one
\* succeeds calls send_ping exactly twice, returns True and adds the entry
\* of today and of the window to the ledger.
C19_SecondAttemptSucceeds ==
    [][ \A p \in Procs :
            ( /\ Returns(p)
              /\ Len(calls'[p]) >= 2
              /\ ~calls'[p][1]
              /\ calls'[p][2] )
            => /\ Len(calls'[p]) = 2
               /\ result'[p] = TRUE
               /\ <<clock.date, TimeStr(p)>> \notin before'[p]
               /\ Ledger' = before'[p] \cup {<<clock.date, TimeStr(p)>>} ]_vars

\* One failure, one success: the ledger holds the window, run_once
\* returned True.
C19_Witness ==
    \E p \in Procs :
        /\ pc[p] = "done"
        /\ calls[p] = <<FALSE, TRUE>>
        /\ result[p] = TRUE
        /\ <<clock.date, TimeStr(p)>> \in Ledger

\* The successful send_ping calls of the present invocation of p.
Dispatched(p) == {e \in pings : e[3] = p /\ e[4] = runs[p]}

\* C20: run_once returns True exactly when a send_ping of the invocation
\* succeeded and the window was marked.
C20_TrueIffDispatched ==
    \A p \in Procs :
        (pc[p] = "done" /\ runs[p] >= 1) =>
            /\ result[p] <=> Dispatched(p) # {}
            /\ \A e \in Dispatched(p) : <<e[1], e[2]>> \in marked

\* One invocation has dispatched its window and returned True; another
\* found its window due and unsent but rate-limited and returned False
\* without a send_ping call.
C20_Witness ==
    \E p, q \in Procs :
        /\ pc[p] = "done" /\ result[p] = TRUE /\ Dispatched(p) # {}
        /\ pc[q] = "done" /\ runs[q] >= 1 /\ result[q] = FALSE /\ calls[q] = <<>>
        /\ \E i \in 1..Len(PingTimes(q)) :
               /\ is_time_to_ping(PingTimes(q)[i], clock.minute \div 60,
                                  clock.minute % 60)
               /\ ~was_ping_sent_today(Ledger, PingTimes(q)[i], clock)
               /\ should_rate_limit(Ledger, clock)

--------------------------------------------------------------------------
(* Cancellation of run.                                                   *)

\* The invocation of p was entered through run and a termination signal has
\* set its flag.
Cancelled(p) == entry[p] = "run" /\ shutdown[p] /\ pc[p] \notin Ended

\* C21: in run, once a termination signal has set the flag, the next check
\* of it stops the work: at a window boundary and in the wait between two
\* attempts the invocation ends, at an attempt boundary the retry loop is
\* left for the window boundary; send_ping is not called again, no further
\* window is taken up, mark_ping_sent_today is not called for the window
\* under way, and run returns: it ends neither by an exception nor by the
\* signal.
C21_CancellationStopsRun ==
    [][\A p \in Runners :
          Cancelled(p) =>
              /\ calls'[p] = calls[p]
              /\ invoked'[p] = invoked[p]
              /\ pc'[p] = "mark_open" => pc[p] = "mark_open"
              /\ pc[p] \in {"check", "backoff"} =>
                     pc'[p] \in {pc[p], "done"} /\ idx'[p] = idx[p]
              /\ pc[p] = "send" => pc'[p] \in {"send", "check"}
              /\ attempt'[p] = attempt[p]
              /\ pc'[p] \notin {"raised", "killed", "crashed"}]_vars

\* A first attempt failed, the signal arrived during the wait, and run
\* returned with no second attempt and no window marked.
C21_Witness ==
    \E p \in Runners :
        /\ entry[p] = "run"
        /\ shutdown[p]
        /\ pc[p] = "done"
        /\ calls[p] = <<FALSE>>
        /\ marked = {}

--------------------------------------------------------------------------
(* Reads of a ledger file that holds no ledger.                           *)

\* The window under check of p is due now.
DueNow(p) ==
    /\ idx[p] <= Len(PingTimes(p))
    /\ is_time_to_ping(TimeStr(p), clock.minute \div 60, clock.minute % 60)

\* C22: was_ping_sent_today does not raise and returns false when the
\* ledger file is missing, unreadable, not JSON or JSON of something else
\* than a mapping: the invocation that called it for a due window goes on,
\* by way of the rename of the bad file, to the rate limit check.
C22_ReadOfBadLedgerIsFalse ==
    [][\A p \in Runners :
          (/\ pc[p] = "check"
           /\ DueNow(p)
           /\ files[LedgerPath].kind # "json"
           /\ pc'[p] # pc[p])
              => pc'[p] \in {"check_backup", "ratelimit"}]_vars

\* Process p is inside was_ping_sent_today or should_rate_limit.
Reading(p) == pc[p] \in {"check", "check_backup", "ratelimit", "ratelimit_backup"}

\* C23: was_ping_sent_today and should_rate_limit are read-only: a step of
\* a process inside one of them, whatever the ledger file holds and whatever
\* a writer is doing, leaves the entries readable at the ledger file's path
\* as they were; a valid ledger is not moved aside by a reader.
C23_ReadersLeaveLedgerAlone ==
    [][\A p \in Runners :
          (Reading(p) /\ pc'[p] # pc[p]) =>
              ReadPings(files'[LedgerPath]) = ReadPings(files[LedgerPath])]_vars

--------------------------------------------------------------------------
(* A failed write of the ledger.                                          *)

--------------------------------------------------------------------------
(* The command run.                                                       *)

\* C25: the command run of the command line makes a signal-aware pass: the
\* invocation it begins is one of run, with the handler of SIGTERM and
\* SIGINT installed, so that a signal asks for cancellation and does not
\* end the process where it stands.
C25_CommandRunIsSignalAware ==
    \A p \in Runners :
        /\ runs[p] >= 1 => entry[p] = "run"
        /\ pc[p] # "killed"

--------------------------------------------------------------------------
(* The critical section of mark_ping_sent_today.                          *)

\* Process p has taken the exclusive lock and has not released it yet: it
\* is between flock(LOCK_EX) and flock(LOCK_UN), about to read, write or
\* replace the ledger.
InCriticalSection(p) ==
    pc[p] \in {"mark_read", "mark_backup", "mark_mkstemp", "mark_write",
               "mark_replace", "mark_unlock"}

\* C26: the lock gives mutual exclusion for the read, modify and replace of
\* the ledger: at no time are two processes inside the critical section of
\* mark_ping_sent_today, however many callers overlap.
C26_OneWriterInCriticalSection ==
    \A p, q \in Procs :
        (InCriticalSection(p) /\ InCriticalSection(q)) => p = q

--------------------------------------------------------------------------
(* The windows of one invocation.                                         *)

\* The first MaxRetries calls of send_ping in the invocation of p failed.
ThreeFailures(p) ==
    /\ Len(calls[p]) >= MaxRetries
    /\ \A i \in 1..MaxRetries : ~calls[p][i]

\* C27: in run_once, when all three attempts for a due window have failed,
\* send_ping is called for no other window of the invocation: the three
\* calls stay the only ones, all for one window, the loop goes over the
\* windows left without another attempt, and the invocation returns false.
C27_NoOtherWindowAfterThreeFailures ==
    \A p \in Runners :
        ThreeFailures(p) =>
            /\ Len(calls[p]) = MaxRetries
            /\ Cardinality(invoked[p]) = 1
            /\ pc[p] \in {"check", "done"}
            /\ pc[p] = "done" => ~result[p]

\* Three attempts failed, the loop went over the windows left and run_once
\* returned false.
C27_Witness ==
    \E p \in Runners :
        /\ ThreeFailures(p)
        /\ idx[p] > Len(PingTimes(p))
        /\ pc[p] = "done"
        /\ ~result[p]
        /\ pings = {}

\* A call of send_ping in the invocation of p has succeeded.
Succeeded(p) == \E i \in 1..Len(calls[p]) : calls[p][i]

\* C28: after the successful dispatch of a window the invocation takes up
\* no further window: in run it is inside mark_ping_sent_today or it has
\* ended, and is never back at the check of a later window, at the rate
\* limit check or at another attempt; in run_once it is inside
\* mark_ping_sent_today or it has returned, with the value true.
C28_NoWindowAfterSuccess ==
    \A p \in Runners :
        Succeeded(p) =>
            /\ pc[p] \notin {"check", "check_backup", "ratelimit",
                              "ratelimit_backup", "send", "backoff"}
            /\ (entry[p] = "run_once" /\ pc[p] = "done") => result[p]

\* The ledger holds an entry whose key parses as a time of day and whose
\* timestamp lies less than an hour back.
RecentEntry ==
    \E e \in Ledger :
        StrptimeOk(e[2]) /\ Timestamp(e) > NowMinutes - RateLimitMinutes

\* Process p takes a step of its loop over the windows.
LoopStep(p) == idx'[p] # idx[p] \/ pc'[p] \notin {pc[p], "killed"}

\* C29: send_ping is called for a window only when the window is due, the
\* ledger has no entry of today for it and no entry of the last hour; a
\* window that is not due, that is recorded or that is rate limited is
\* skipped: no call of send_ping, no change of a file, and the loop is at
\* the check of the next window.
C29_DispatchOnlyWhenDueUnsentUnlimited ==
    [][\A p \in Runners :
          /\ (calls'[p] # calls[p] /\ runs'[p] = runs[p]) =>
                 /\ DueNow(p)
                 /\ <<clock.date, TimeStr(p)>> \notin Ledger
                 /\ ~RecentEntry
          /\ (/\ LoopStep(p)
              /\ ~Cancelled(p)
              /\ idx[p] <= Len(PingTimes(p))
              /\ \/ pc[p] = "check"
                       /\ (~DueNow(p) \/ <<clock.date, TimeStr(p)>> \in Ledger)
                 \/ pc[p] = "ratelimit" /\ RecentEntry) =>
                 /\ idx'[p] = idx[p] + 1
                 /\ pc'[p] = "check"
                 /\ calls'[p] = calls[p]
                 /\ pings' = pings
                 /\ files' = files]_vars

\* One invocation has dispatched its window; another, of a Config with
\* other windows, found its due window rate limited, called send_ping for
\* none and went through all its windows.
C29_Witness ==
    \E p, q \in Runners :
        /\ cfg[p] # cfg[q]
        /\ \E e \in pings : e[3] = q
        /\ RecentEntry
        /\ runs[p] >= 1
        /\ pc[p] = "done"
        /\ idx[p] > Len(PingTimes(p))
        /\ calls[p] = <<>>

\* C30: in an invocation of run or of run_once send_ping is called at most
\* three times for a window, whatever succeeds, fails or is cancelled:
\* invoked[p] holds the windows send_ping was called for, calls[p] the
\* calls, and a call is made only for an attempt number below three that
\* equals the number of calls already made for the window.
C30_AtMostThreeAttemptsPerWindow ==
    /\ [][\A p \in Runners :
              (calls'[p] # calls[p] /\ runs'[p] = runs[p]) =>
                  /\ attempt[p] < 3
                  /\ Len(calls[p]) = attempt[p] + 3 * Cardinality(invoked[p] \ {TimeStr(p)})]_vars
    /\ [](\A p \in Runners : Len(calls[p]) <= 3 * Cardinality(invoked[p]))

\* An invocation of run made three attempts for its window and all failed.
C30_Witness ==
    \E p \in Runners :
        /\ entry[p] = "run"
        /\ calls[p] = <<FALSE, FALSE, FALSE>>
        /\ Cardinality(invoked[p]) = 1
        /\ pc[p] = "done"

--------------------------------------------------------------------------
(* The keys of a day.                                                     *)

\* C37: the window keys calculate_ping_times returns for a valid Config, in
\* the five-hour variant and in the package's variant of thirds up to
\* 17:00, are pairwise distinct and in strictly increasing order of time:
\* no two windows of a day share a ledger key.
C37_KeysDistinctAndIncreasing ==
    ret.fn # "none" =>
        \A i, j \in 1..Len(ret.times) :
            i < j => /\ ret.times[i] # ret.times[j]
                     /\ ParseMinutes(ret.times[i]) < ParseMinutes(ret.times[j])

--------------------------------------------------------------------------
(* The rate limiter and the keys of the calculator.                       *)

\* C35: every dispatch the loop has recorded counts for the rate limiter:
\* whatever key of calculate_ping_times the ledger holds, should_rate_limit
\* returns true from the earliest moment the window can be dispatched, 15
\* minutes before its scheduled instant, until 60 minutes after that
\* instant; no stored key is passed over as unparseable.
C35_StoredKeysLimit ==
    ret.fn = "should_rate_limit" =>
        \A e \in Ledger :
            (/\ Timestamp(e) - ToleranceMinutes <= NowMinutes
             /\ NowMinutes < Timestamp(e) + RateLimitMinutes) => ret.limited

--------------------------------------------------------------------------
(* The waits of the retry loop.                                           *)

RECURSIVE SumOf(_)
SumOf(q) == IF q = <<>> THEN 0 ELSE q[1] + SumOf(Tail(q))

\* C31: the wait before attempt k+1 of a window is 5 * 2^(k-1) seconds, 5
\* before the second attempt and 10 before the third, and none follows the
\* third attempt: with one window attempted in the invocation, after k
\* calls of send_ping the waits begun are the first k-1 or the first k of
\* 5 and 10, and they sum to at most 15 seconds.
C31_BackoffFiveThenTen ==
    \A p \in Runners :
        Cardinality(invoked[p]) <= 1 =>
            /\ \E n \in 0..2 : waits[p] = SubSeq(<<5, 10>>, 1, n)
            /\ Len(waits[p]) <= Len(calls[p])
            /\ Len(calls[p]) <= Len(waits[p]) + 1
            /\ SumOf(waits[p]) <= 15

\* Three attempts of run_once with the waits of 5 and of 10 seconds between
\* them and none after the third.
C31_Witness ==
    \E p \in Runners :
        /\ entry[p] = "run_once"
        /\ pc[p] = "done"
        /\ Len(calls[p]) = 3
        /\ waits[p] = <<5, 10>>

--------------------------------------------------------------------------
(* A dispatch whose mark failed.                                          *)

\* The invocation of q ended by the exception of mark_ping_sent_today,
\* after its send_ping had succeeded.
MarkFailed(q) == pc[q] = "raised" /\ raising[q] /\ Succeeded(q)

\* C32: when send_ping has succeeded for a window and mark_ping_sent_today
\* has failed, the action is not invoked again for that date and window,
\* neither in the same invocation nor in a later one while the window is
\* due: the dispatch before the failure stays the only one.
C32_NoDispatchAfterFailedMark ==
    \A q \in Runners :
        MarkFailed(q) =>
            Cardinality({e \in pings : e[1] = clock.date /\ e[2] = TimeStr(q)}) = 1

--------------------------------------------------------------------------
(* The life of the ledger file.                                           *)

\* C33: the ledger file is created lazily: whenever a file exists at its
\* path some call of send_ping has succeeded before; an invocation on an
\* inactive day, with nothing due, rate limited, with all attempts failed
\* or cancelled, and a dry run never create it.
C33_LedgerCreatedOnFirstDispatch ==
    files[LedgerPath].kind # "absent" => pings # {}

\* Invocations have failed three times, have run dry and have been ended
\* by a signal, and there is still no ledger file.
C33_Witness ==
    /\ files[LedgerPath] = Absent
    /\ pings = {}
    /\ \E p, q \in Runners :
           /\ pc[p] = "done"
           /\ Len(calls[p]) = 3
           /\ entry[q] = "cmd_test"
           /\ pc[q] = "done"

--------------------------------------------------------------------------
(* What is written to the ledger.                                         *)

\* C34: a window is marked only after its action succeeded: every entry
\* that appears in the ledger is of a date and window for which send_ping
\* has returned true in the invocation that is replacing the file; an
\* invocation whose attempts failed, were used up or were cancelled changes
\* no file.
C34_MarkedOnlyAfterSuccess ==
    [][/\ \A e \in Ledger' \ Ledger :
              \E g \in pings :
                  /\ g[1] = e[1]
                  /\ g[2] = e[2]
                  /\ pc[g[3]] = "mark_replace"
                  /\ g[4] = runs[g[3]]
       /\ files' # files =>
              \E p \in Runners : Succeeded(p) /\ pc'[p] # pc[p]]_vars

\* The ledger holds the window of an invocation of run whose second
\* attempt succeeded.
C34_Witness ==
    \E p \in Runners :
        /\ entry[p] = "run"
        /\ calls[p] = <<FALSE, TRUE>>
        /\ <<clock.date, PingTimes(p)[1]>> \in Ledger

--------------------------------------------------------------------------
(* The date of a record.                                                  *)

\* C36: within one invocation mark_ping_sent_today records the window
\* under the date was_ping_sent_today looked under before the dispatch,
\* also when the attempts and waits last beyond midnight: the mapping the
\* invocation is about to write holds the window under that date.
C36_MarkedUnderCheckedDate ==
    \A p \in Runners :
        pc[p] \in {"mark_write", "mark_replace"} =>
            <<checked[p], TimeStr(p)>> \in data[p]

--------------------------------------------------------------------------
(* What a call of mark_ping_sent_today leaves behind.                     *)

\* The call of mark_ping_sent_today by p is over: it returned or raised.
MarkOver(p) == pc[p] \in {"done", "raised"}

--------------------------------------------------------------------------
(* Termination.                                                           *)

\* Process p waits in flock for a lock another process holds.
Blocked(p) ==
    /\ pc[p] = "mark_flock"
    /\ lockHolder[lockFd[p]] \notin {0, p}

\* Process p holds the lock of the file it opened.
Granted(p) == lockFd[p] # 0 /\ lockHolder[lockFd[p]] = p

\* C39: every invocation of run_once comes to its end, given that every
\* send_ping call returns and every holder of the lock releases it; the
\* invocation calls send_ping at most 3 times for each window; and a
\* caller that waits for the lock in mark_ping_sent_today gets it.
C39_RunOnceTerminates ==
    /\ \A p \in Runners : (pc[p] \notin Ended) ~> (pc[p] \in Ended)
    /\ \A p \in Runners : Blocked(p) ~> Granted(p)
    /\ [](\A p \in Runners : Len(calls[p]) <= MaxRetries * Cardinality(invoked[p]))

\* An invocation waits for the lock another invocation holds.
C39_Witness == \E p \in Runners : Blocked(p) /\ entry[p] = "run_once"

====
